---- MODULE Spec2Model ----
(***************************************************************************)
(* Control flow of the two command-line programs of the repository:        *)
(*   e2e_test.py       bucket check -> invoke -> wait -> log check         *)
(*   invoke_lambda.py  session -> loop of (payload, invoke, check, delay)  *)
(* Every SDK call is an input of the model: it returns a value drawn from  *)
(* a small set or raises.  A run ends in pc = "done" with the exit code of *)
(* the process; `uncaught` records that the run ended with an exception    *)
(* leaving main (the interpreter then exits with status 1).                *)
(***************************************************************************)
EXTENDS Integers, Sequences, FiniteSets, TLC

\* ------------------------------------------------------------------ bounds
MaxCount   == 3      \* largest --count explored
MaxStreams == 3      \* number of log stream names that may exist in the group
MaxTime    == 2      \* last-event times range over 1..MaxTime
MaxEvents  == 1      \* a stream holds 0..MaxEvents events

\* ------------------------------------------------------- program constants
StatusOkMin == 200   \* response['StatusCode'] >= 200
StatusOkMax == 300   \* response['StatusCode'] < 300
StreamLimit == 5     \* describe_log_streams(limit=5)
EventLimit  == 10    \* get_log_events(limit=10)
PrintLimit  == 3     \* events['events'][:3]

None == "<None>"     \* Python's None (an option or variable that is not set)

Min(a, b) == IF a < b THEN a ELSE b

\* Python truthiness of an optional string: None and "" are falsy.
Truthy(v) == v /= None /\ v /= ""

\* Status codes an invoke may return: the edges of the 2xx range and a 500.
StatusCodes == {199, 200, 299, 300, 500}

\* Values of the optional command-line options and environment variables.
AccessKeyArgs == {None, "", "AKIA-CLI"}
SecretKeyArgs == {None, "", "secret-cli"}
ProfileArgs   == {None, "", "dev"}
AccessKeyEnv  == {None, "", "AKIA-ENV"}
SecretKeyEnv  == {None, "", "secret-env"}
Regions       == {"ap-northeast-1", "us-east-1"}
LogLevels     == {"INFO"}

StreamNames == 1..MaxStreams

\* The log groups the log check may meet: each existing stream has a
\* last-event time and a number of stored events.
LogGroups ==
    UNION { [D -> [lastEventTime : 1..MaxTime, events : 0..MaxEvents]] :
            D \in SUBSET StreamNames }

VARIABLES
    program,     \* "e2e" (e2e_test.py) or "load" (invoke_lambda.py)
    pc,          \* position of the single thread of control
    exitCode,    \* -1 while running, then the exit status of the process
    uncaught,    \* TRUE iff an exception propagated out of main
    raised,      \* the call that raised in this run, "none" if none did
    log,         \* remote calls and sleeps issued so far, in order
    response,    \* outcome of the last invoke: NoResponse before the first,
                 \* RaisedResponse when the call raised, else the response
    args,        \* parsed options of the load generator
    env,         \* credential environment variables
    session,     \* the boto3.Session built by create_session
    i,           \* loop variable of the load generator
    okCount,     \* number of invocations that came back 2xx
    steps,       \* results of the three end-to-end steps
    logStreams,  \* the log group queried by the end-to-end test
    streamsResp, \* response['logStreams'] of describe_log_streams
    fetched,     \* stream names passed to get_log_events, in order
    printed      \* number of event messages printed by the log check

vars == <<program, pc, exitCode, uncaught, raised, log, response, args, env,
          session, i, okCount, steps, logStreams, streamsResp, fetched,
          printed>>

NoResponse == [kind |-> "none", StatusCode |-> 0, FunctionError |-> FALSE,
               PayloadOk |-> TRUE]
RaisedResponse == [kind |-> "raised", StatusCode |-> 0,
                   FunctionError |-> FALSE, PayloadOk |-> TRUE]
NoSession  == [kind |-> "none", aws_access_key_id |-> None,
               aws_secret_access_key |-> None, profile_name |-> None,
               region_name |-> None]
NoArgs     == [count |-> 0, access_key |-> None, secret_key |-> None,
               profile |-> None, region |-> None, log_level |-> None]
NoEnv      == [AWS_ACCESS_KEY_ID |-> None, AWS_SECRET_ACCESS_KEY |-> None]
NoSteps    == [bucket |-> "notrun", invoke |-> "notrun", logs |-> "notrun"]

\* A response of lambda_client.invoke: the status code, whether the key
\* 'FunctionError' is present, and whether response['Payload'] can be read
\* and decoded as JSON (only looked at when 'FunctionError' is present).
InvokeResponses ==
    { [kind |-> "returned", StatusCode |-> s, FunctionError |-> FALSE,
       PayloadOk |-> TRUE] : s \in StatusCodes }
    \cup
    { [kind |-> "returned", StatusCode |-> s, FunctionError |-> TRUE,
       PayloadOk |-> p] : s \in StatusCodes, p \in BOOLEAN }

Entry(op, n) == [op |-> op, n |-> n]

\* ------------------------------------------------------------ pure helpers

\* 200 <= StatusCode < 300
\* Variant of StatusOk without the upper bound (used against C4).
StatusOkNoUpper(code) == code >= StatusOkMin
StatusOk(code) == code >= StatusOkMin /\ code < StatusOkMax

\* generate_payload: the fields that do not come from the clock or from
\* random; metadata.invocation_number is the argument.
\* Variant numbering from 0 (used against C2).
generate_payload_zero_based(invocation_number, log_level) ==
    [test_event |-> TRUE, log_level |-> log_level,
     metadata |-> [source |-> "invoke_lambda.py",
                   invocation_number |-> invocation_number - 1,
                   environment |-> "test"]]
generate_payload(invocation_number, log_level) ==
    [test_event |-> TRUE, log_level |-> log_level,
     metadata |-> [source |-> "invoke_lambda.py",
                   invocation_number |-> invocation_number,
                   environment |-> "test"]]

\* boto3.Session(...) as called by create_session: the keyword arguments.
Session(kind, ak, sk, profile, region) ==
    [kind |-> kind, aws_access_key_id |-> ak, aws_secret_access_key |-> sk,
     profile_name |-> profile, region_name |-> region]

\* Variant of create_session that tests --profile before the keys (used
\* against C5).
create_session_profile_first(a, e) ==
    LET cli == Truthy(a.access_key) /\ Truthy(a.secret_key)
        aws_access_key == IF cli THEN a.access_key ELSE e.AWS_ACCESS_KEY_ID
        aws_secret_key == IF cli THEN a.secret_key ELSE e.AWS_SECRET_ACCESS_KEY
    IN  IF Truthy(a.profile)
        THEN Session("profile", None, None, a.profile, a.region)
        ELSE IF Truthy(aws_access_key) /\ Truthy(aws_secret_key)
        THEN Session("keys", aws_access_key, aws_secret_key, None, a.region)
        ELSE Session("default", None, None, None, a.region)

\* Variant of create_session whose profile branch drops region_name (used
\* against C6).
create_session_no_region(a, e) ==
    LET cli == Truthy(a.access_key) /\ Truthy(a.secret_key)
        aws_access_key == IF cli THEN a.access_key ELSE e.AWS_ACCESS_KEY_ID
        aws_secret_key == IF cli THEN a.secret_key ELSE e.AWS_SECRET_ACCESS_KEY
    IN  IF Truthy(aws_access_key) /\ Truthy(aws_secret_key)
        THEN Session("keys", aws_access_key, aws_secret_key, None, a.region)
        ELSE IF Truthy(a.profile)
        THEN Session("profile", None, None, a.profile, None)
        ELSE Session("default", None, None, None, a.region)

\* create_session: environment keys first, overridden by the command-line
\* pair when both are given; then keys, else profile, else default chain.
create_session(a, e) ==
    LET cli == Truthy(a.access_key) /\ Truthy(a.secret_key)
        aws_access_key == IF cli THEN a.access_key ELSE e.AWS_ACCESS_KEY_ID
        aws_secret_key == IF cli THEN a.secret_key ELSE e.AWS_SECRET_ACCESS_KEY
    IN  IF Truthy(aws_access_key) /\ Truthy(aws_secret_key)
        THEN Session("keys", aws_access_key, aws_secret_key, None, a.region)
        ELSE IF Truthy(a.profile)
        THEN Session("profile", None, None, a.profile, a.region)
        ELSE Session("default", None, None, None, a.region)

\* ------------------------------------------------------------------- Init

InitLoad ==
    /\ program = "load"
    /\ pc = "lg_session"
    /\ args \in [count : 0..MaxCount, access_key : AccessKeyArgs,
                 secret_key : SecretKeyArgs, profile : ProfileArgs,
                 region : Regions, log_level : LogLevels]
    /\ env \in [AWS_ACCESS_KEY_ID : AccessKeyEnv,
                AWS_SECRET_ACCESS_KEY : SecretKeyEnv]
    /\ logStreams = <<>>

InitE2E ==
    /\ program = "e2e"
    /\ pc = "e2e_clients"
    /\ args = NoArgs
    /\ env = NoEnv
    /\ logStreams \in LogGroups

Init ==
    /\ InitLoad \/ InitE2E
    /\ exitCode = -1
    /\ uncaught = FALSE
    /\ raised = "none"
    /\ log = <<>>
    /\ response = NoResponse
    /\ session = NoSession
    /\ i = 0
    /\ okCount = 0
    /\ steps = NoSteps
    /\ streamsResp = <<>>
    /\ fetched = <<>>
    /\ printed = 0

e2eVars  == <<steps, logStreams, streamsResp, fetched, printed>>
loadVars == <<args, env, session, i, okCount>>

\* The process ends with exit status `code`.
Exit(code) == pc' = "done" /\ exitCode' = code

\* --------------------------------------------- invoke_lambda.py: main loop

\* main, lines 112-120: create the session (an exception is caught and the
\* program exits 1), then enter the loop if range(1, count + 1) is not empty;
\* with an empty range main runs to its end.
LGCreateSession ==
    /\ program = "load" /\ pc = "lg_session"
    /\ \/ /\ raised' = "create_session"
          /\ Exit(1)
          /\ UNCHANGED <<session, i>>
       \/ /\ session' = create_session(args, env)
          /\ raised' = raised
          /\ IF args.count >= 1
             THEN pc' = "lg_invoke" /\ i' = 1 /\ exitCode' = exitCode
             ELSE Exit(0) /\ i' = i
    /\ UNCHANGED <<program, uncaught, log, response, args, env, okCount>>
    /\ UNCHANGED e2eVars

\* main, lines 121-127, with invoke_lambda, lines 91-104: build the payload
\* of iteration i and invoke.  session.client('lambda') is outside the try:
\* an exception there leaves main.  An exception of invoke is caught and the
\* program exits 1.
LGInvoke ==
    /\ program = "load" /\ pc = "lg_invoke"
    /\ LET payload == generate_payload(i, args.log_level)
           issued  == Append(log, Entry("invoke",
                                        payload.metadata.invocation_number))
       IN  \/ /\ raised' = "client"
              /\ uncaught' = TRUE
              /\ Exit(1)
              /\ UNCHANGED <<log, response>>
           \/ /\ raised' = "invoke"
              /\ response' = RaisedResponse
              /\ log' = issued
              /\ Exit(1)
              /\ UNCHANGED uncaught
           \/ \E r \in InvokeResponses :
                 /\ response' = r
                 /\ log' = issued
                 /\ pc' = "lg_check"
                 /\ UNCHANGED <<uncaught, raised, exitCode>>
    /\ UNCHANGED <<program, args, env, session, i, okCount>>
    /\ UNCHANGED e2eVars

\* main, lines 129-139: a 2xx status is a success; with 'FunctionError' in
\* the response the payload is read and decoded, outside any try.  Any other
\* status exits 1.
LGCheck ==
    /\ program = "load" /\ pc = "lg_check"
    /\ IF StatusOk(response.StatusCode)
       THEN /\ okCount' = okCount + 1
            /\ IF response.FunctionError /\ ~response.PayloadOk
               THEN raised' = "payload" /\ uncaught' = TRUE /\ Exit(1)
               ELSE pc' = "lg_delay" /\ UNCHANGED <<raised, uncaught, exitCode>>
       ELSE /\ Exit(1)
            /\ UNCHANGED <<okCount, raised, uncaught>>
    /\ UNCHANGED <<program, log, response, args, env, session, i>>
    /\ UNCHANGED e2eVars

\* main, lines 141-149 and the loop header: sleep `delay` when i < count and
\* go on with i + 1; after the last iteration print the summary and return.
LGDelay ==
    /\ program = "load" /\ pc = "lg_delay"
    /\ IF i < args.count
       THEN /\ log' = Append(log, Entry("sleep", 0))
            /\ i' = i + 1
            /\ pc' = "lg_invoke"
            /\ exitCode' = exitCode
       ELSE /\ Exit(0)
            /\ UNCHANGED <<log, i>>
    /\ UNCHANGED <<program, uncaught, raised, response, args, env, session,
                   okCount>>
    /\ UNCHANGED e2eVars

\* ------------------------------------------------- e2e_test.py: the steps

\* The listings describe_log_streams(orderBy='LastEventTime',
\* descending=True, limit=limit) may return for a log group: its streams,
\* newest last-event time first (streams of equal time in either order),
\* cut at `limit`.
DescribeLogStreams(group, limit) ==
    LET D == DOMAIN group
        n == Cardinality(D)
        sorted == { f \in [1..n -> D] :
                      /\ \A a, b \in 1..n : a /= b => f[a] /= f[b]
                      /\ \A a, b \in 1..n :
                            a < b => group[f[a]].lastEventTime
                                       >= group[f[b]].lastEventTime }
    IN  { SubSeq(f, 1, Min(n, limit)) : f \in sorted }

\* get_log_events(logStreamName=name, limit=limit): the events of the
\* stream, numbered, at most `limit` of them.
GetLogEvents(group, name, limit) ==
    [k \in 1..Min(group[name].events, limit) |-> k]

\* response['logStreams'][0]['logStreamName']
\* Variant of NewestStream taking the last listed stream (used against C7).
NewestStreamLast(resp) == resp[Len(resp)]
NewestStream(resp) == resp[1]

\* main, lines 115-118: the session and the three clients are created
\* outside any try; an exception there leaves main.
E2ECreateClients ==
    /\ program = "e2e" /\ pc = "e2e_clients"
    /\ \/ /\ raised' = "client"
          /\ uncaught' = TRUE
          /\ Exit(1)
       \/ /\ pc' = "e2e_bucket"
          /\ UNCHANGED <<raised, uncaught, exitCode>>
    /\ UNCHANGED <<program, log, response>>
    /\ UNCHANGED loadVars
    /\ UNCHANGED e2eVars

\* main, lines 121-123, with verify_s3_bucket, lines 99-108: head_bucket;
\* any exception is a failure of the step and main returns 1.
\* Variant of E2EVerifyBucket that goes on to the invoke after a failed
\* bucket check (used against C1).
E2EVerifyBucketContinue ==
    /\ program = "e2e" /\ pc = "e2e_bucket"
    /\ log' = Append(log, Entry("head_bucket", 0))
    /\ \/ /\ raised' = "head_bucket"
          /\ steps' = [steps EXCEPT !.bucket = "fail"]
          /\ pc' = "e2e_invoke"
          /\ exitCode' = exitCode
       \/ /\ steps' = [steps EXCEPT !.bucket = "ok"]
          /\ pc' = "e2e_invoke"
          /\ UNCHANGED <<raised, exitCode>>
    /\ UNCHANGED <<program, uncaught, response>>
    /\ UNCHANGED <<logStreams, streamsResp, fetched, printed>>
    /\ UNCHANGED loadVars
E2EVerifyBucket ==
    /\ program = "e2e" /\ pc = "e2e_bucket"
    /\ log' = Append(log, Entry("head_bucket", 0))
    /\ \/ /\ raised' = "head_bucket"
          /\ steps' = [steps EXCEPT !.bucket = "fail"]
          /\ Exit(1)
       \/ /\ steps' = [steps EXCEPT !.bucket = "ok"]
          /\ pc' = "e2e_invoke"
          /\ UNCHANGED <<raised, exitCode>>
    /\ UNCHANGED <<program, uncaught, response>>
    /\ UNCHANGED <<logStreams, streamsResp, fetched, printed>>
    /\ UNCHANGED loadVars

\* main, lines 126-128, with invoke_lambda, lines 26-55: one invoke; the
\* step succeeds iff the call returns a 2xx status ('FunctionError' and the
\* payload are never looked at); an exception is a failure of the step.
E2EInvoke ==
    /\ program = "e2e" /\ pc = "e2e_invoke"
    /\ log' = Append(log, Entry("invoke", 0))
    /\ \/ /\ raised' = "invoke"
          /\ response' = RaisedResponse
          /\ steps' = [steps EXCEPT !.invoke = "fail"]
          /\ Exit(1)
       \/ \E r \in InvokeResponses :
             /\ response' = r
             /\ raised' = raised
             /\ IF StatusOk(r.StatusCode)
                THEN /\ steps' = [steps EXCEPT !.invoke = "ok"]
                     /\ pc' = "e2e_wait"
                     /\ exitCode' = exitCode
                ELSE /\ steps' = [steps EXCEPT !.invoke = "fail"]
                     /\ Exit(1)
    /\ UNCHANGED <<program, uncaught>>
    /\ UNCHANGED <<logStreams, streamsResp, fetched, printed>>
    /\ UNCHANGED loadVars

\* verify_cloudwatch_logs, lines 59-60: the fixed wait.
E2EWait ==
    /\ program = "e2e" /\ pc = "e2e_wait"
    /\ log' = Append(log, Entry("sleep", 0))
    /\ pc' = "e2e_describe"
    /\ UNCHANGED <<program, exitCode, uncaught, raised, response>>
    /\ UNCHANGED loadVars
    /\ UNCHANGED e2eVars

\* verify_cloudwatch_logs, lines 62-74 and 95-97, and main, lines 131-133:
\* list the streams; an exception or an empty listing fails the step.
\* Variant of E2EDescribe that repeats describe_log_streams after an
\* exception (used against C9).
E2EDescribeRetry ==
    /\ program = "e2e" /\ pc = "e2e_describe"
    /\ log' = Append(log, Entry("describe_log_streams", 0))
    /\ \/ /\ raised' = "describe_log_streams"
          /\ UNCHANGED <<steps, streamsResp, pc, exitCode>>
       \/ \E resp \in DescribeLogStreams(logStreams, StreamLimit) :
             /\ raised' = raised
             /\ IF resp = <<>>
                THEN /\ steps' = [steps EXCEPT !.logs = "fail"]
                     /\ Exit(1)
                     /\ UNCHANGED streamsResp
                ELSE /\ streamsResp' = resp
                     /\ pc' = "e2e_events"
                     /\ UNCHANGED <<steps, exitCode>>
    /\ UNCHANGED <<program, uncaught, response>>
    /\ UNCHANGED <<logStreams, fetched, printed>>
    /\ UNCHANGED loadVars
E2EDescribe ==
    /\ program = "e2e" /\ pc = "e2e_describe"
    /\ log' = Append(log, Entry("describe_log_streams", 0))
    /\ \/ /\ raised' = "describe_log_streams"
          /\ steps' = [steps EXCEPT !.logs = "fail"]
          /\ Exit(1)
          /\ UNCHANGED streamsResp
       \/ \E resp \in DescribeLogStreams(logStreams, StreamLimit) :
             /\ raised' = raised
             /\ IF resp = <<>>
                THEN /\ steps' = [steps EXCEPT !.logs = "fail"]
                     /\ Exit(1)
                     /\ UNCHANGED streamsResp
                ELSE /\ streamsResp' = resp
                     /\ pc' = "e2e_events"
                     /\ UNCHANGED <<steps, exitCode>>
    /\ UNCHANGED <<program, uncaught, response>>
    /\ UNCHANGED <<logStreams, fetched, printed>>
    /\ UNCHANGED loadVars

\* verify_cloudwatch_logs, lines 76-97, and main, lines 131-136: fetch the
\* events of the first listed stream; an exception or no event fails the
\* step, otherwise up to three messages are printed and main returns 0.
E2EGetEvents ==
    /\ program = "e2e" /\ pc = "e2e_events"
    /\ LET log_stream == NewestStream(streamsResp)
           events == GetLogEvents(logStreams, log_stream, EventLimit)
       IN  /\ log' = Append(log, Entry("get_log_events", 0))
           /\ fetched' = Append(fetched, log_stream)
           /\ \/ /\ raised' = "get_log_events"
                 /\ steps' = [steps EXCEPT !.logs = "fail"]
                 /\ Exit(1)
                 /\ UNCHANGED printed
              \/ /\ raised' = raised
                 /\ IF events = <<>>
                    THEN /\ steps' = [steps EXCEPT !.logs = "fail"]
                         /\ Exit(1)
                         /\ UNCHANGED printed
                    ELSE /\ printed' = Len(SubSeq(events, 1,
                                            Min(Len(events), PrintLimit)))
                         /\ steps' = [steps EXCEPT !.logs = "ok"]
                         /\ Exit(0)
    /\ UNCHANGED <<program, uncaught, response>>
    /\ UNCHANGED <<logStreams, streamsResp>>
    /\ UNCHANGED loadVars

Next ==
    \/ LGCreateSession
    \/ LGInvoke
    \/ LGCheck
    \/ LGDelay
    \/ E2ECreateClients
    \/ E2EVerifyBucket
    \/ E2EInvoke
    \/ E2EWait
    \/ E2EDescribe
    \/ E2EGetEvents

Spec == Init /\ [][Next]_vars

\* ------------------------------------------------------ reading the history

Ops(l) == [k \in 1..Len(l) |-> l[k].op]
IsInvoke(e) == e.op = "invoke"
IsSleep(e) == e.op = "sleep"
\* invocation_number of the payloads of the invocations issued, in order
InvokeNumbers(l) == LET inv == SelectSeq(l, IsInvoke)
                    IN  [k \in 1..Len(inv) |-> inv[k].n]
Sleeps(l) == Len(SelectSeq(l, IsSleep))
Times(l, op) == Cardinality({k \in 1..Len(l) : l[k].op = op})
IsPrefix(s, t) == Len(s) <= Len(t) /\ \A k \in 1..Len(s) : s[k] = t[k]
OneTo(n) == [k \in 1..n |-> k]

E2EOrder == <<"head_bucket", "invoke", "sleep", "describe_log_streams",
              "get_log_events">>

LoadDone == program = "load" /\ pc = "done"
E2EDone  == program = "e2e" /\ pc = "done"

\* invoke, sleep, invoke, ..., invoke: n invocations numbered 1..n with one
\* sleep strictly between each two consecutive ones and none at either end.
Alternating(l, n) ==
    /\ Len(l) = 2 * n - 1
    /\ \A k \in 1..Len(l) :
          IF k % 2 = 1 THEN l[k] = Entry("invoke", (k + 1) \div 2)
                       ELSE l[k] = Entry("sleep", 0)

\* ------------------------------------------------------------------ claims

\* C1: in the end-to-end driver the exit code is 0 iff the bucket check, the
\* invoke and the log check all succeeded; the calls are issued in the fixed
\* order; a failed bucket check ends the run with exit code 1 after
\* head_bucket alone, a failed invoke ends it with exit code 1 before the
\* wait and the log check start.
C1_ExitCodeIffAllSteps ==
    program = "e2e" =>
      /\ IsPrefix(Ops(log), E2EOrder)
      /\ pc = "done" =>
           /\ exitCode \in {0, 1}
           /\ exitCode = 0 <=> /\ steps.bucket = "ok"
                               /\ steps.invoke = "ok"
                               /\ steps.logs = "ok"
      /\ steps.bucket = "fail" =>
           /\ pc = "done" /\ exitCode = 1
           /\ Ops(log) = <<"head_bucket">>
           /\ steps.invoke = "notrun" /\ steps.logs = "notrun"
      /\ steps.invoke = "fail" =>
           /\ pc = "done" /\ exitCode = 1
           /\ Ops(log) = <<"head_bucket", "invoke">>
           /\ steps.logs = "notrun"
      /\ steps.logs = "fail" => pc = "done" /\ exitCode = 1
      /\ steps.invoke /= "notrun" => steps.bucket = "ok"
      /\ steps.logs /= "notrun" => steps.invoke = "ok"

C1_Witness ==
    /\ E2EDone /\ exitCode = 0
    /\ Ops(log) = E2EOrder

\* C2 (as stated): every finished run of the load generator with count >= 1
\* has issued exactly count invocations, numbered 1..count in order.
C2_ExactlyCountInEveryRun ==
    (LoadDone /\ args.count >= 1) => InvokeNumbers(log) = OneTo(args.count)

\* C2 (amended): a run of the load generator with count >= 1 that ends with
\* exit code 0 has issued exactly count invocations, numbered 1..count in
\* order; in every run, finished or not, at most count invocations are
\* issued and the k-th invocation issued carries invocation_number k.
C2_CountInCompletedRun ==
    (program = "load" /\ args.count >= 1) =>
      /\ Len(InvokeNumbers(log)) <= args.count
      /\ InvokeNumbers(log) = OneTo(Len(InvokeNumbers(log)))
      /\ (pc = "done" /\ exitCode = 0) =>
            InvokeNumbers(log) = OneTo(args.count)

C2_Witness ==
    /\ LoadDone /\ exitCode = 0 /\ args.count = MaxCount
    /\ InvokeNumbers(log) = OneTo(MaxCount)

\* C3: a finished run of the load generator with count >= 1 in which all
\* count invocations returned a 2xx status has the history invoke, sleep,
\* invoke, ..., invoke (count invocations, count-1 sleeps strictly between
\* them) and exit code 0.
C3_AllOkRunExitsZero ==
    (LoadDone /\ args.count >= 1 /\ okCount = args.count) =>
      /\ Alternating(log, args.count)
      /\ exitCode = 0

\* C4: when invocation k of the load generator raises or returns a non-2xx
\* status the run ends with exit code 1, invocation k is the last entry of
\* the history (no sleep after it, no invocation k+1) and exactly k
\* invocations were issued.
InvocationFailed ==
    \/ response.kind = "raised"
    \/ response.kind = "returned" /\ ~(response.StatusCode >= StatusOkMin
                                       /\ response.StatusCode < StatusOkMax)
C4_FirstFailureAborts ==
    (program = "load" /\ InvocationFailed) =>
      /\ pc \in {"lg_check", "done"}
      /\ pc = "done" => exitCode = 1
      /\ log /= <<>> /\ log[Len(log)] = Entry("invoke", i)
      /\ Alternating(log, i)
      /\ okCount = i - 1

C4_Witness ==
    /\ LoadDone /\ exitCode = 1 /\ args.count = 3 /\ i = 2
    /\ response.kind = "returned" /\ response.StatusCode = 500
    /\ InvokeNumbers(log) = <<1, 2>>

\* The credential sources of create_session, as the options and the
\* environment give them.
CliPair == Truthy(args.access_key) /\ Truthy(args.secret_key)
EnvPair == Truthy(env.AWS_ACCESS_KEY_ID) /\ Truthy(env.AWS_SECRET_ACCESS_KEY)
HasProfile == Truthy(args.profile)
SessionBuilt == program = "load" /\ session /= NoSession
FromKeys(ak, sk) ==
    /\ session.aws_access_key_id = ak
    /\ session.aws_secret_access_key = sk
    /\ session.profile_name = None
FromProfile ==
    /\ session.profile_name = args.profile
    /\ session.aws_access_key_id = None
    /\ session.aws_secret_access_key = None
FromDefaultChain ==
    /\ session.profile_name = None
    /\ session.aws_access_key_id = None
    /\ session.aws_secret_access_key = None

\* C5: create_session takes the credentials from the first source present
\* in the order command-line key pair, environment key pair, --profile,
\* default chain; with the command-line pair and --profile both given the
\* session carries the command-line keys and no profile, whatever the
\* environment holds.
C5_CredentialPrecedence ==
    SessionBuilt =>
      /\ CliPair => FromKeys(args.access_key, args.secret_key)
      /\ (~CliPair /\ EnvPair) =>
            FromKeys(env.AWS_ACCESS_KEY_ID, env.AWS_SECRET_ACCESS_KEY)
      /\ (~CliPair /\ ~EnvPair /\ HasProfile) => FromProfile
      /\ (~CliPair /\ ~EnvPair /\ ~HasProfile) => FromDefaultChain

C5_Witness ==
    /\ SessionBuilt /\ CliPair /\ HasProfile /\ EnvPair
    /\ session.aws_access_key_id = "AKIA-CLI"
    /\ session.profile_name = None

\* C6 (as stated): without a complete command-line key pair, a supplied
\* profile is used with the given region, and without a profile the default
\* chain is used.
C6_ProfileWheneverNoCliPair ==
    SessionBuilt =>
      /\ (~CliPair /\ HasProfile) =>
            FromProfile /\ session.region_name = args.region
      /\ (~CliPair /\ ~HasProfile) => FromDefaultChain

\* C6 (amended): without a complete command-line key pair and without both
\* AWS_ACCESS_KEY_ID and AWS_SECRET_ACCESS_KEY in the environment, a
\* supplied profile is used with the given region, and without a profile
\* the default chain is used with the given region.
C6_ProfileWhenNoKeys ==
    SessionBuilt =>
      /\ (~CliPair /\ ~EnvPair /\ HasProfile) =>
            FromProfile /\ session.region_name = args.region
      /\ (~CliPair /\ ~EnvPair /\ ~HasProfile) =>
            FromDefaultChain /\ session.region_name = args.region

C6_Witness ==
    /\ SessionBuilt /\ ~CliPair /\ ~EnvPair /\ HasProfile
    /\ args.access_key = "AKIA-CLI" /\ args.secret_key = None
    /\ session.profile_name = "dev"
    /\ session.region_name = args.region

\* No stream of the group has a later last-event time than s.
IsNewest(s) ==
    /\ s \in DOMAIN logStreams
    /\ \A t \in DOMAIN logStreams :
          logStreams[t].lastEventTime <= logStreams[s].lastEventTime

\* C7: get_log_events is called at most once and only for the first stream
\* of the listing, a stream of the latest last-event time; when the log
\* check has returned without an exception it failed without fetching
\* events if the group has no stream, and otherwise it succeeded iff that
\* stream holds at least one event (and then at least one message was
\* printed).
C7_LogCheckResult ==
    program = "e2e" =>
      /\ Len(fetched) <= 1
      /\ Len(fetched) = Times(log, "get_log_events")
      /\ \A k \in 1..Len(fetched) :
            fetched[k] = streamsResp[1] /\ IsNewest(fetched[k])
      /\ (steps.logs /= "notrun" /\ raised = "none") =>
            /\ DOMAIN logStreams = {} =>
                  steps.logs = "fail" /\ fetched = <<>>
            /\ DOMAIN logStreams /= {} =>
                  /\ Len(fetched) = 1
                  /\ steps.logs = "ok" <=>
                        logStreams[fetched[1]].events > 0
                  /\ steps.logs = "ok" => printed >= 1

C7_Witness ==
    /\ E2EDone /\ steps.logs = "ok" /\ raised = "none"
    /\ Cardinality(DOMAIN logStreams) >= 2
    /\ \E t \in DOMAIN logStreams :
          /\ logStreams[t].lastEventTime < logStreams[fetched[1]].lastEventTime
          /\ logStreams[t].events = 0

\* C8: no run of either program ends with an exception leaving main.
C8_NoUncaughtException == uncaught = FALSE

\* C9: in the end-to-end program each of head_bucket, invoke, the wait,
\* describe_log_streams and get_log_events happens at most once, the wait
\* directly follows the successful invoke and describe_log_streams directly
\* follows the wait; in the load generator no invocation number is issued
\* twice.
C9_NoRetry ==
    /\ program = "e2e" =>
          /\ \A k \in 1..Len(E2EOrder) : Times(log, E2EOrder[k]) <= 1
          /\ \A k \in 1..Len(log) :
                /\ log[k].op = "sleep" =>
                      /\ k > 1 /\ log[k - 1].op = "invoke"
                      /\ steps.invoke = "ok"
                /\ log[k].op = "describe_log_streams" =>
                      k > 1 /\ log[k - 1].op = "sleep"
    /\ program = "load" =>
          \A a, b \in 1..Len(InvokeNumbers(log)) :
             a /= b => InvokeNumbers(log)[a] /= InvokeNumbers(log)[b]

C9_Witness ==
    /\ E2EDone /\ raised = "describe_log_streams"
    /\ Ops(log) = <<"head_bucket", "invoke", "sleep", "describe_log_streams">>

\* A 2xx response carrying 'FunctionError', received for the last
\* invocation issued.
FunctionError2xx ==
    /\ response.kind = "returned"
    /\ response.StatusCode >= StatusOkMin
    /\ response.StatusCode < StatusOkMax
    /\ response.FunctionError

\* C10: a 2xx response with a function error is a success: the end-to-end
\* invoke step succeeds and the driver goes on to the log check; the load
\* generator, once it has examined the response, goes on to the delay and
\* the next iteration, or ends with exit code 0 if it was the last.
C10_FunctionErrorIsSuccess ==
    /\ (program = "e2e" /\ FunctionError2xx) =>
          /\ steps.invoke = "ok"
          /\ pc = "done" => steps.logs /= "notrun"
    /\ (program = "load" /\ FunctionError2xx
          /\ Len(InvokeNumbers(log)) = i /\ pc /= "lg_check") =>
          \/ pc = "lg_delay"
          \/ pc = "done" /\ exitCode = 0 /\ i = args.count

====
